---- MODULE Spec2Model ----
(***************************************************************************)
(* Model of the Canvas3D host of lefo-canvas (src/main.js) together with   *)
(* the outcome of generateCode (src/llm.js).                               *)
(*                                                                         *)
(* JavaScript is single threaded and every callback runs to completion,    *)
(* so each handler (a frame callback, the start of a user command, the     *)
(* continuation of a user command after its await) is one action.          *)
(***************************************************************************)
EXTENDS Integers, Sequences, FiniteSets, TLC

(***************************************************************************)
(* Bounds of the model.                                                    *)
(***************************************************************************)
MaxCommands == 3
MaxPending == 2
MaxFrames == 2
MaxListed == 11

(***************************************************************************)
(* JavaScript values, as far as executeModule inspects them.  A property   *)
(* that is not there reads as Undef.                                       *)
(***************************************************************************)
Undef == "<undefined>"

JsValue(type, message, error) == [type |-> type, message |-> message, error |-> error]

VUndefined == JsValue("undefined", Undef, Undef)
VTrue == JsValue("true", Undef, Undef)
VNull == JsValue("null", Undef, Undef)
VHandle == JsValue("object", Undef, Undef)
VString == JsValue("string", Undef, Undef)
VError(m) == JsValue("object", m, Undef)
VErrObj(e) == JsValue("object", Undef, e)

\* ToBoolean of a property value that is a string or undefined.
Truthy(s) == s # Undef /\ s # ""

(***************************************************************************)
(* Module code.  A code string is abstracted to: whether `new Function`    *)
(* compiles it, the capability calls its top level makes, in order, and    *)
(* how the top level ends (falls off its end, returns val, throws val).    *)
(***************************************************************************)
Program(ok, body, end, val) == [ok |-> ok, body |-> body, end |-> end, val |-> val]

\* scene.add(new THREE.Mesh(...))
CodeAddObject == Program(TRUE, <<"scene.add">>, "fall", VUndefined)
\* events.addEventListener('animate', function () { counter++ })
CodeSubscribe == Program(TRUE, <<"events.addEventListener">>, "fall", VUndefined)
\* modules.set("gravityField", { type: "physics", ... })
CodeRegisterSelf == Program(TRUE, <<"modules.set">>, "fall", VUndefined)
\* events.addEventListener('animate', function () { throw new Error("tick") })
CodeSubscribeThrowing == Program(TRUE, <<"events.addEventListener:throws">>, "fall", VUndefined)
\* modules.delete("module_0")
CodeDeleteRecord == Program(TRUE, <<"modules.delete">>, "fall", VUndefined)
\* modules.clear()
CodeClear == Program(TRUE, <<"modules.clear">>, "fall", VUndefined)
\* scene.add(mesh); events.addEventListener('animate', tick); modules.clear(); const x = ;
CodeSyntaxError ==
  Program(FALSE, <<"scene.add", "events.addEventListener", "modules.clear">>, "fall", VUndefined)
\* throw new Error("boom")
CodeThrowBoom == Program(TRUE, <<>>, "throw", VError("boom"))
\* modules.set("gravityField", {...}); throw new Error("boom")
CodeSetThenThrow == Program(TRUE, <<"modules.set">>, "throw", VError("boom"))
\* throw new Error("")
CodeThrowEmpty == Program(TRUE, <<>>, "throw", VError(""))
\* throw "boom"
CodeThrowString == Program(TRUE, <<>>, "throw", VString)
\* throw null
CodeThrowNull == Program(TRUE, <<>>, "throw", VNull)
\* scene.add(mesh); return { update() {...}, destroy() {...} }
CodeReturnHandle == Program(TRUE, <<"scene.add">>, "return", VHandle)
\* if (done) return;
CodeReturnEarly == Program(TRUE, <<>>, "return", VUndefined)
\* return { error: "declared" }
CodeReturnError == Program(TRUE, <<>>, "return", VErrObj("declared"))

Codes ==
  { CodeAddObject, CodeSubscribe, CodeRegisterSelf, CodeClear, CodeSyntaxError,
    CodeThrowBoom, CodeSetThenThrow, CodeThrowEmpty, CodeThrowString, CodeThrowNull,
    CodeReturnHandle, CodeReturnEarly, CodeReturnError }

Texts == {"add a cube"}

(***************************************************************************)
(* Strings that are compared or concatenated are sequences of code units.  *)
(***************************************************************************)
\* "module_"
StrModule == <<109, 111, 100, 117, 108, 101, 95>>
\* "undefined", what localeCompare makes of an undefined argument
StrUndefined == <<117, 110, 100, 101, 102, 105, 110, 101, 100>>
\* "gravityField"
StrGravityField == <<103, 114, 97, 118, 105, 116, 121, 70, 105, 101, 108, 100>>

\* Decimal digits of n as code units, the way a template literal prints it.
RECURSIVE NumberToString(_)
NumberToString(n) ==
  IF n < 10 THEN <<48 + n>>
  ELSE NumberToString(n \div 10) \o <<48 + (n % 10)>>

\* `module_${n}`
ModuleId(n) == StrModule \o NumberToString(n)

\* a.localeCompare(b) for the strings above: code unit by code unit, a
\* proper prefix first.  Negative, zero or positive.
RECURSIVE LocaleCompare(_, _)
LocaleCompare(a, b) ==
  IF a = <<>> /\ b = <<>> THEN 0
  ELSE IF a = <<>> THEN -1
  ELSE IF b = <<>> THEN 1
  ELSE IF Head(a) < Head(b) THEN -1
  ELSE IF Head(a) > Head(b) THEN 1
  ELSE LocaleCompare(Tail(a), Tail(b))

(***************************************************************************)
(* The registry: a Map, kept as the sequence of its entries in insertion   *)
(* order.  An entry is the key with the fields of the value.               *)
(***************************************************************************)
NoCode == Program(FALSE, <<>>, "none", VUndefined)

\* { id, description, code, timestamp } under key id
HostEntry(id, description, code, timestamp) ==
  [key |-> id, hasId |-> TRUE, id |-> id, description |-> description,
   code |-> code, timestamp |-> timestamp]

\* { type: "physics", influence, mesh } under key "gravityField": no id
ForeignEntry ==
  [key |-> StrGravityField, hasId |-> FALSE, id |-> <<>>, description |-> Undef,
   code |-> NoCode, timestamp |-> -1]

\* Map.prototype.set: replaces the value in place, or appends.
MapSet(m, e) ==
  IF \E i \in 1..Len(m) : m[i].key = e.key
  THEN [i \in 1..Len(m) |-> IF m[i].key = e.key THEN e ELSE m[i]]
  ELSE Append(m, e)

\* Map.prototype.delete
MapDelete(m, key) == SelectSeq(m, LAMBDA e : e.key # key)

MapKeys(m) == {m[i].key : i \in 1..Len(m)}

(***************************************************************************)
(* updateModulesList: the sort by id and the list it renders.              *)
(***************************************************************************)
\* the comparator (a, b) => a[1].id.localeCompare(b[1].id) raises a
\* TypeError when a has no id
ComparatorThrows(a) == ~a.hasId

\* the comparator's sign when it does not throw
Comparator(a, b) == LocaleCompare(a.id, IF b.hasId THEN b.id ELSE StrUndefined)

\* whether a sorts strictly before b
SortsBefore(a, b) == a.hasId /\ Comparator(a, b) < 0

\* stable insertion of e into the sorted sequence s
RECURSIVE InsertSorted(_, _)
InsertSorted(e, s) ==
  IF s = <<>> THEN <<e>>
  ELSE IF SortsBefore(e, Head(s)) THEN <<e>> \o s
  ELSE <<Head(s)>> \o InsertSorted(e, Tail(s))

RECURSIVE SortedModules(_)
SortedModules(m) ==
  IF m = <<>> THEN <<>>
  ELSE InsertSorted(m[Len(m)], SortedModules(SubSeq(m, 1, Len(m) - 1)))

\* Which argument of the comparator an entry becomes is up to the engine's
\* sort: with two or more entries an entry without id may or may not be the
\* receiver of localeCompare.
SortMayThrow(m) == Len(m) >= 2 /\ \E i \in 1..Len(m) : ComparatorThrows(m[i])

(***************************************************************************)
(* State.                                                                  *)
(***************************************************************************)
VARIABLES
  scene,          \* this.scene.children.length
  modules,        \* this.modules, entries in insertion order
  moduleCounter,  \* this.moduleCounter
  events,         \* listeners of "animate" on this.events, in subscription order
  modulesList,    \* the <li> items of #modules, as the entries they show
  pending,        \* descriptions of the user commands awaiting generateCode
  submitted,      \* number of user commands submitted so far
  rafPending,     \* frame callbacks requested and not yet run
  now,            \* number of frames delivered after construction; the clock
  frame,          \* what the last run of animate did, in order
  fired,          \* listeners invoked by the last dispatch, in order
  ids,            \* history: the identifiers assigned so far, in order
  loading,        \* the call of executeModule on the stack, statement by statement
  sanitizer,      \* the clean-up of a generated text, statement by statement
  last            \* report of the last handler that ran

vars ==
  <<scene, modules, moduleCounter, events, modulesList, pending, submitted,
    rafPending, now, frame, fired, ids, loading, sanitizer, last>>

(***************************************************************************)
(* What a handler shows: alert() texts and console.error() calls.  A text  *)
(* is the literal prefix and the message appended to it.                   *)
(***************************************************************************)
Alert(prefix, message) == [prefix |-> prefix, message |-> message]

MsgSyntaxError == "Unexpected token ';'"
MsgNullMessage == "Cannot read properties of null (reading 'message')"
MsgNoLocaleCompare == "Cannot read properties of undefined (reading 'localeCompare')"

\* the part of the state a load can touch, as it was before the handler ran
Snapshot(sc, m, c, ev, ml) ==
  [scene |-> sc, modules |-> m, moduleCounter |-> c, events |-> ev, modulesList |-> ml]

NoSnapshot == Snapshot(0, <<>>, 0, <<>>, <<>>)

\* which handler ran (op), the code it was given, whether it called
\* executeModule, the state before it (pre) and what it showed
Report(op, code, called, pre, alerts, console) ==
  [op |-> op, code |-> code, called |-> called, pre |-> pre, alerts |-> alerts,
   console |-> console]

\* no call of executeModule is on the stack
NotLoading ==
  [active |-> FALSE, steps |-> <<>>, code |-> NoCode, description |-> Undef,
   sortThrows |-> FALSE, began |-> [now |-> 0, settled |-> 0], pre |-> NoSnapshot,
   console |-> <<>>]

(***************************************************************************)
(* The module wrapper built by executeModule and its call.                 *)
(***************************************************************************)
\* a listener is kept with the frame count at its subscription (since), the
\* number of times it was invoked (hits) and whether its body throws
Listener(time, throws) == [since |-> time, hits |-> 0, throws |-> throws]

\* one capability call of the module's top level
RunStatementClearUnsubscribes(stmt, st, time) ==
  CASE stmt = "scene.add" -> [st EXCEPT !.scene = @ + 1]
    [] stmt = "events.addEventListener" ->
         [st EXCEPT !.events = Append(@, Listener(time, FALSE))]
    [] stmt = "events.addEventListener:throws" ->
         [st EXCEPT !.events = Append(@, Listener(time, TRUE))]
    [] stmt = "modules.set" -> [st EXCEPT !.modules = MapSet(@, ForeignEntry)]
    [] stmt = "modules.delete" -> [st EXCEPT !.modules = MapDelete(@, ModuleId(0))]
    [] stmt = "modules.clear" -> [st EXCEPT !.modules = <<>>, !.events = <<>>]

RunStatement(stmt, st, time) ==
  CASE stmt = "scene.add" -> [st EXCEPT !.scene = @ + 1]
    [] stmt = "events.addEventListener" ->
         [st EXCEPT !.events = Append(@, Listener(time, FALSE))]
    [] stmt = "events.addEventListener:throws" ->
         [st EXCEPT !.events = Append(@, Listener(time, TRUE))]
    [] stmt = "modules.set" -> [st EXCEPT !.modules = MapSet(@, ForeignEntry)]
    [] stmt = "modules.delete" -> [st EXCEPT !.modules = MapDelete(@, ModuleId(0))]
    [] stmt = "modules.clear" -> [st EXCEPT !.modules = <<>>]

RECURSIVE RunBody(_, _, _)
RunBody(body, st, time) ==
  IF body = <<>> THEN st
  ELSE RunBody(Tail(body), RunStatement(Head(body), st, time), time)

\* a wrapper without its `return true`: code that falls off its end yields
\* undefined
moduleFunctionNoReturnTrue(code, st, time) ==
  LET after == RunBody(code.body, st, time) IN
  CASE code.end = "fall" ->
         [st |-> after, raised |-> FALSE, value |-> VUndefined, console |-> <<>>]
    [] code.end = "return" -> [st |-> after, raised |-> FALSE, value |-> code.val, console |-> <<>>]
    [] code.end = "throw" ->
         [st |-> after, raised |-> FALSE, value |-> VErrObj(code.val.message),
          console |-> <<"Module execution error:">>]

\* try { <code>; return true } catch (error) { return { error: error.message } }
\* reading .message of null or undefined raises inside the catch block
moduleFunction(code, st, time) ==
  LET after == RunBody(code.body, st, time) IN
  CASE code.end = "fall" -> [st |-> after, raised |-> FALSE, value |-> VTrue, console |-> <<>>]
    [] code.end = "return" -> [st |-> after, raised |-> FALSE, value |-> code.val, console |-> <<>>]
    [] code.end = "throw" ->
         IF code.val.type \in {"null", "undefined"}
         THEN [st |-> after, raised |-> TRUE, value |-> VError(MsgNullMessage),
               console |-> <<"Module execution error:">>]
         ELSE [st |-> after, raised |-> FALSE, value |-> VErrObj(code.val.message),
               console |-> <<"Module execution error:">>]

\* updateModulesList: empties the list, sorts, renders one item per entry
updateModulesList(m, sortThrows) ==
  IF sortThrows /\ SortMayThrow(m)
  THEN [raised |-> TRUE, modulesList |-> <<>>]
  ELSE [raised |-> FALSE, modulesList |-> SortedModules(m)]

\* a counter that is read and not advanced
PostIncrementStuck(c) == c

\* a counter advanced twice
PostIncrementTwice(c) == c + 2

\* this.moduleCounter++ : the counter after the id was taken
PostIncrement(c) == c + 1

\* a constructor that accepts text that does not parse
NewFunctionNeverThrows(code) == FALSE

\* new Function(..., wrapper) raises a SyntaxError when the code does not parse
NewFunctionThrows(code) == ~code.ok

\* executeModule(code, description) from state st with list ml and counter c:
\* the state it leaves and what it reports
executeModule(code, description, st, ml, c, time, sortThrows) ==
  IF NewFunctionThrows(code)
  THEN [st |-> st, modulesList |-> ml, moduleCounter |-> c,
        assigned |-> <<>>,
        alerts |-> <<Alert("Execution error: ", MsgSyntaxError)>>,
        console |-> <<"Execution error:">>]
  ELSE
    LET r == moduleFunction(code, st, time) IN
    IF r.raised
    THEN [st |-> r.st, modulesList |-> ml, moduleCounter |-> c,
          assigned |-> <<>>,
          alerts |-> <<Alert("Execution error: ", r.value.message)>>,
          console |-> r.console \o <<"Execution error:">>]
    ELSE IF r.value.type = "true"
    THEN
      LET moduleId == ModuleId(c)
          m == MapSet(r.st.modules, HostEntry(moduleId, description, code, time))
          u == updateModulesList(m, sortThrows)
      IN [st |-> [r.st EXCEPT !.modules = m], modulesList |-> u.modulesList,
          moduleCounter |-> PostIncrement(c), assigned |-> <<moduleId>>,
          alerts |-> IF u.raised THEN <<Alert("Execution error: ", MsgNoLocaleCompare)>> ELSE <<>>,
          console |-> r.console \o (IF u.raised THEN <<"Execution error:">> ELSE <<>>)]
    ELSE IF Truthy(r.value.error)
    THEN [st |-> r.st, modulesList |-> ml, moduleCounter |-> c,
          assigned |-> <<>>,
          alerts |-> <<Alert("Module error: ", r.value.error)>>,
          console |-> r.console \o <<"Module error:">>]
    ELSE [st |-> r.st, modulesList |-> ml, moduleCounter |-> c,
          assigned |-> <<>>, alerts |-> <<>>, console |-> r.console]

(***************************************************************************)
(* The clean-up of the generated text in generateCode (llm.js 69-117).     *)
(* A text is the sequence of its code units.                               *)
(***************************************************************************)
\* String.prototype.toLowerCase: "A".."Z" are 65..90, "a".."z" 97..122
ToLowerCase(s) == [i \in 1..Len(s) |-> IF s[i] \in 65..90 THEN s[i] + 32 ELSE s[i]]

\* the text p stands in s at position i
StartsWithAt(s, i, p) ==
  /\ i + Len(p) - 1 <= Len(s)
  /\ SubSeq(s, i, i + Len(p) - 1) = p

\* String.prototype.includes
Includes(s, p) == \E i \in 1..(Len(s) + 1) : StartsWithAt(s, i, p)

\* String.prototype.startsWith
StartsWith(s, p) == StartsWithAt(s, 1, p)

Least(S) == CHOOSE x \in S : \A y \in S : x <= y

\* s.replace(/a1|a2|.../g, "") for literal alternatives: at each position
\* the first alternative that matches is removed and the scan goes on after it
RECURSIVE ReplaceLiterals(_, _, _)
ReplaceLiterals(s, i, alternatives) ==
  IF i > Len(s) THEN <<>>
  ELSE
    LET hits == {k \in 1..Len(alternatives) : StartsWithAt(s, i, alternatives[k])} IN
    IF hits = {} THEN <<s[i]>> \o ReplaceLiterals(s, i + 1, alternatives)
    ELSE ReplaceLiterals(s, i + Len(alternatives[Least(hits)]), alternatives)

\* three backticks
StrFence == <<96, 96, 96>>

\* the alternatives of the fence pattern in order: the fence followed by
\* "javascript", the fence followed by "js", the fence alone
FencePatterns ==
  <<StrFence \o <<106, 97, 118, 97, 115, 99, 114, 105, 112, 116>>,
    StrFence \o <<106, 115>>,
    StrFence>>

\* the alternatives of the second pattern: "return " and a backtick, a backtick
BacktickPatterns == <<<<114, 101, 116, 117, 114, 110, 32, 96>>, <<96>>>>

\* "import"
StrImport == <<105, 109, 112, 111, 114, 116>>
\* "from"
StrFrom == <<102, 114, 111, 109>>

\* the characters `.' does not match: line feed, carriage return
LineTerminators == {10, 13}

\* where a match of /import.*?from.*?;/ that starts at i ends, 0 when there
\* is none: the first "from" after "import" and the first ";" (59) after it,
\* all on one line
ImportMatchEnd(s, i) ==
  IF ~StartsWithAt(s, i, StrImport) THEN 0
  ELSE
    LET breaks == {e \in i..Len(s) : s[e] \in LineTerminators}
        lineEnd == IF breaks = {} THEN Len(s) + 1 ELSE Least(breaks)
        froms == {j \in (i + Len(StrImport))..(lineEnd - 1) :
                    StartsWithAt(s, j, StrFrom) /\ j + Len(StrFrom) - 1 < lineEnd}
    IN
    IF froms = {} THEN 0
    ELSE
      LET semis == {k \in (Least(froms) + Len(StrFrom))..(lineEnd - 1) : s[k] = 59} IN
      IF semis = {} THEN 0 ELSE Least(semis)

\* s.replace(/import.*?from.*?;/g, "")
RECURSIVE ReplaceImports(_, _)
ReplaceImports(s, i) ==
  IF i > Len(s) THEN <<>>
  ELSE
    LET end == ImportMatchEnd(s, i) IN
    IF end = 0 THEN <<s[i]>> \o ReplaceImports(s, i + 1)
    ELSE ReplaceImports(s, end + 1)

\* s.split("\n")
RECURSIVE SplitLines(_)
SplitLines(s) ==
  LET breaks == {e \in 1..Len(s) : s[e] = 10} IN
  IF breaks = {} THEN <<s>>
  ELSE <<SubSeq(s, 1, Least(breaks) - 1)>> \o SplitLines(SubSeq(s, Least(breaks) + 1, Len(s)))

\* lines.join("\n")
RECURSIVE JoinLines(_)
JoinLines(lines) ==
  IF lines = <<>> THEN <<>>
  ELSE IF Len(lines) = 1 THEN lines[1]
  ELSE lines[1] \o <<10>> \o JoinLines(Tail(lines))

\* tab, line feed, carriage return, space
WhiteSpace == {9, 10, 13, 32}

\* String.prototype.trim
Trim(s) ==
  LET inked == {i \in 1..Len(s) : s[i] \notin WhiteSpace} IN
  IF inked = {} THEN <<>>
  ELSE SubSeq(s, Least(inked), CHOOSE x \in inked : \A y \in inked : y <= x)

\* "here is"
StrHereIs == <<104, 101, 114, 101, 32, 105, 115>>
\* "this code"
StrThisCode == <<116, 104, 105, 115, 32, 99, 111, 100, 101>>

\* codeStarters: const, let, var, function, class, /, events, scene, THREE
CodeStarters ==
  {<<99, 111, 110, 115, 116>>,
   <<108, 101, 116>>,
   <<118, 97, 114>>,
   <<102, 117, 110, 99, 116, 105, 111, 110>>,
   <<99, 108, 97, 115, 115>>,
   <<47>>,
   <<101, 118, 101, 110, 116, 115>>,
   <<115, 99, 101, 110, 101>>,
   <<84, 72, 82, 69, 69>>}

\* the condition of the if at llm.js 81-84
HasDiscourseMarker(s) ==
  Includes(ToLowerCase(s), StrHereIs) \/ Includes(ToLowerCase(s), StrThisCode)

StartsWithCodeToken(line) == \E token \in CodeStarters : StartsWith(line, token)

\* the for loop of llm.js 100-111 from index i (counted from 0): the index
\* of the first line that is not blank and starts with a code token, and
\* the initial 0 of startLine when the loop ends without one
RECURSIVE FindStartLine(_, _)
FindStartLine(lines, i) ==
  IF i >= Len(lines) THEN 0
  ELSE
    LET line == Trim(lines[i + 1]) IN
    IF line = <<>> THEN FindStartLine(lines, i + 1)
    ELSE IF StartsWithCodeToken(line) THEN i
    ELSE FindStartLine(lines, i + 1)

\* lines.slice(startLine)
Slice(lines, startLine) == SubSeq(lines, startLine + 1, Len(lines))

\* the block "Remove explanatory text at the beginning"
RemoveExplanation(s) ==
  IF HasDiscourseMarker(s)
  THEN LET lines == SplitLines(s) IN JoinLines(Slice(lines, FindStartLine(lines, 0)))
  ELSE s

(***************************************************************************)
(* generateCode: the ways it rejects.  Each is caught at line 118 and      *)
(* rethrown as "Failed to generate code: " + message.                      *)
(***************************************************************************)
GenerationFailures ==
  { "Failed to fetch",                                           \* fetch rejects
    "API Error: upstream",                                       \* !response.ok
    "Cannot read properties of undefined (reading '0')" }        \* data.content missing

(***************************************************************************)
(* The frame step.                                                         *)
(***************************************************************************)
\* a frame step that renders before it dispatches
AnimateStepsRenderFirst ==
  <<"requestAnimationFrame", "controls.update", "render", "dispatchEvent">>

\* a frame step that does not request its successor
AnimateStepsNoReschedule == <<"controls.update", "dispatchEvent", "render">>

\* animate(): request the next frame, advance the controls, dispatch
\* "animate", render
AnimateSteps == <<"requestAnimationFrame", "controls.update", "dispatchEvent", "render">>

\* a dispatch that walks the listeners from the newest to the oldest
RECURSIVE DispatchNewestFirst(_, _, _)
DispatchNewestFirst(i, ev, log) ==
  IF i > Len(ev) THEN [events |-> ev, fired |-> log, raised |-> FALSE]
  ELSE DispatchNewestFirst(i + 1, [ev EXCEPT ![Len(ev) + 1 - i].hits = @ + 1],
                           Append(log, Len(ev) + 1 - i))

\* a dispatch that lets a listener's exception out: the listeners after the
\* one that throws are not invoked and the exception reaches the caller
RECURSIVE DispatchPropagates(_, _, _)
DispatchPropagates(i, ev, log) ==
  IF i > Len(ev) THEN [events |-> ev, fired |-> log, raised |-> FALSE]
  ELSE IF ev[i].throws
  THEN [events |-> [ev EXCEPT ![i].hits = @ + 1], fired |-> Append(log, i), raised |-> TRUE]
  ELSE DispatchPropagates(i + 1, [ev EXCEPT ![i].hits = @ + 1], Append(log, i))

\* dispatchEvent of an EventTarget: the listeners present when the dispatch
\* starts, each invoked once, in order; an exception thrown by a listener is
\* reported and the walk goes on, so nothing is raised to the caller
RECURSIVE Dispatch(_, _, _)
Dispatch(i, ev, log) ==
  IF i > Len(ev) THEN [events |-> ev, fired |-> log, raised |-> FALSE]
  ELSE Dispatch(i + 1, [ev EXCEPT ![i].hits = @ + 1], Append(log, i))

\* the statements of animate in order; an exception out of one of them ends
\* the callback there
RECURSIVE RunFrame(_, _)
RunFrame(steps, f) ==
  IF steps = <<>> \/ f.raised THEN f
  ELSE
    LET step == Head(steps)
        g == CASE step = "requestAnimationFrame" -> [f EXCEPT !.rafPending = @ + 1]
               [] step = "controls.update" -> f
               [] step = "dispatchEvent" ->
                    LET d == Dispatch(1, f.events, <<>>) IN
                    [f EXCEPT !.events = d.events, !.fired = d.fired, !.raised = d.raised]
               [] step = "render" -> f
    IN RunFrame(Tail(steps), [g EXCEPT !.frame = Append(@, step)])

FrameOf(raf, ev) ==
  [rafPending |-> raf, events |-> ev, fired |-> <<>>, frame |-> <<>>, raised |-> FALSE]

(***************************************************************************)
(* Initial state: the constructor has run, and with it init(), which adds  *)
(* two lights to the scene and runs animate() once.                        *)
(***************************************************************************)
InitHost ==
  LET f == RunFrame(AnimateSteps, FrameOf(0, <<>>)) IN
  /\ scene = 2
  /\ modules = <<>>
  /\ moduleCounter = 0
  /\ events = f.events
  /\ modulesList = <<>>
  /\ pending = <<>>
  /\ submitted = 0
  /\ rafPending = f.rafPending
  /\ now = 0
  /\ frame = f.frame
  /\ fired = f.fired
  /\ ids = <<>>
  /\ loading = NotLoading
  /\ last = Report("init", NoCode, FALSE, NoSnapshot, <<>>, <<>>)

\* no text is being cleaned
NotSanitizing == [stage |-> "idle", text |-> <<>>, code |-> <<>>, cleaned |-> <<>>]

Init == InitHost /\ sanitizer = NotSanitizing

(***************************************************************************)
(* Actions.                                                                *)
(***************************************************************************)
\* a requested frame callback runs: animate()
animate ==
  /\ rafPending >= 1
  /\ now < MaxFrames
  /\ LET f == RunFrame(AnimateSteps, FrameOf(rafPending - 1, events)) IN
     /\ rafPending' = f.rafPending
     /\ events' = f.events
     /\ fired' = f.fired
     /\ frame' = f.frame
  /\ now' = now + 1
  /\ last' = Report("animate", NoCode, FALSE, NoSnapshot, <<>>, <<>>)
  /\ UNCHANGED <<scene, modules, moduleCounter, modulesList, pending, submitted, ids,
                 loading, sanitizer>>

\* click or Enter: executeUserCommand(text) up to its await.  The prompt
\* built from the registry keys and the scene size goes to the generator,
\* whose answer the model leaves open.
userCommand(text, limit) ==
  /\ submitted < limit
  /\ Len(pending) < MaxPending
  /\ pending' = Append(pending, text)
  /\ submitted' = submitted + 1
  /\ last' = Report("submit", NoCode, FALSE, NoSnapshot, <<>>, <<>>)
  /\ UNCHANGED <<scene, modules, moduleCounter, events, modulesList, rafPending, now,
                 frame, fired, ids, loading, sanitizer>>

executeUserCommand(text) == userCommand(text, MaxCommands)

Without(s, i) == SubSeq(s, 1, i - 1) \o SubSeq(s, i + 1, Len(s))

\* commands settled so far: their generation failed or their code was loaded
Settled == submitted - Len(pending)

\* a rejection that is not caught before the load: the missing code is
\* loaded as the text "undefined", which compiles and completes
generationFailsButLoads(i, message) ==
  /\ i \in 1..Len(pending)
  /\ pending' = Without(pending, i)
  /\ LET st == [scene |-> scene, events |-> events, modules |-> modules]
         code == Program(TRUE, <<>>, "fall", VUndefined)
         o == executeModule(code, pending[i], st, modulesList, moduleCounter, now, FALSE)
     IN /\ modules' = o.st.modules
        /\ modulesList' = o.modulesList
        /\ moduleCounter' = o.moduleCounter
        /\ ids' = ids \o o.assigned
        /\ last' = Report("generationFails", NoCode, TRUE,
                          Snapshot(scene, modules, moduleCounter, events, modulesList),
                          <<Alert("Error: ", "Failed to generate code: " \o message)>>,
                          <<"Error calling API:", "Error executing command:">>)
  /\ UNCHANGED <<scene, events, submitted, rafPending, now, frame, fired, loading, sanitizer>>

\* generateCode rejects for command i: the catch of executeUserCommand
generationFails(i, message) ==
  /\ i \in 1..Len(pending)
  /\ pending' = Without(pending, i)
  /\ last' = Report("generationFails", NoCode, FALSE,
                    Snapshot(scene, modules, moduleCounter, events, modulesList),
                    <<Alert("Error: ", "Failed to generate code: " \o message)>>,
                    <<"Error calling API:", "Error executing command:">>)
  /\ UNCHANGED <<scene, modules, moduleCounter, events, modulesList, submitted,
                 rafPending, now, frame, fired, ids, loading, sanitizer>>

\* generateCode resolves with code for command i: executeModule(code, text)
generationReturns(i, code, sortThrows) ==
  /\ i \in 1..Len(pending)
  /\ pending' = Without(pending, i)
  /\ LET st == [scene |-> scene, events |-> events, modules |-> modules]
         o == executeModule(code, pending[i], st, modulesList, moduleCounter, now, sortThrows)
     IN /\ scene' = o.st.scene
        /\ events' = o.st.events
        /\ modules' = o.st.modules
        /\ modulesList' = o.modulesList
        /\ moduleCounter' = o.moduleCounter
        /\ ids' = ids \o o.assigned
        /\ last' = Report("executeModule", code, TRUE,
                          Snapshot(scene, modules, moduleCounter, events, modulesList),
                          o.alerts, o.console)
  /\ UNCHANGED <<submitted, rafPending, now, frame, fired, loading, sanitizer>>

Next ==
  \/ animate
  \/ \E text \in Texts : executeUserCommand(text)
  \/ \E i \in 1..MaxPending, message \in GenerationFailures : generationFails(i, message)
  \/ \E i \in 1..MaxPending, code \in Codes, sortThrows \in BOOLEAN :
       generationReturns(i, code, sortThrows)

Spec == Init /\ [][Next]_vars

(***************************************************************************)
(* Loads of plain modules only, as many as it takes for identifiers to     *)
(* differ in their number of digits.                                       *)
(***************************************************************************)
ListCodes == {CodeAddObject, CodeClear}

listCommand == userCommand("add a cube", MaxListed)

listLoad == \E code \in ListCodes : generationReturns(1, code, FALSE)

NextList == listCommand \/ listLoad

SpecList == Init /\ [][NextList]_vars

(***************************************************************************)
(* Side specification for the lifetime of records: module code that uses   *)
(* the registry it is handed.                                              *)
(***************************************************************************)
RegistryCodes == {CodeAddObject, CodeDeleteRecord, CodeClear}

registryLoad ==
  \E i \in 1..MaxPending, code \in RegistryCodes : generationReturns(i, code, FALSE)

NextRegistry ==
  \/ animate
  \/ \E text \in Texts : executeUserCommand(text)
  \/ registryLoad

SpecRegistry == Init /\ [][NextRegistry]_vars

(***************************************************************************)
(* Side specification for commands in flight together: each command has    *)
(* its own text, so a record tells which command it came from.             *)
(***************************************************************************)
FlightTexts == <<"add a cube", "add a sphere", "make it spin">>

\* the text of the k-th command submitted
FlightText(k) == FlightTexts[((k - 1) % Len(FlightTexts)) + 1]

FlightCodes == {CodeAddObject, CodeThrowBoom}

flightCommand == userCommand(FlightText(submitted + 1), MaxCommands)

flightLoad ==
  \E i \in 1..MaxPending, code \in FlightCodes : generationReturns(i, code, FALSE)

flightFails ==
  \E i \in 1..MaxPending, message \in GenerationFailures : generationFails(i, message)

NextFlight == flightCommand \/ flightLoad \/ flightFails

SpecFlight == Init /\ [][NextFlight]_vars

(***************************************************************************)
(* Side specification for the frame loop running for ever: the clock stops *)
(* at MaxFrames and the frames go on.  The host runs a requested frame     *)
(* callback at the next repaint, hence the weak fairness of the frame.     *)
(***************************************************************************)
LoopCodes == {CodeAddObject, CodeClear, CodeThrowBoom}

animateLoop ==
  /\ rafPending >= 1
  /\ LET f == RunFrame(AnimateSteps, FrameOf(rafPending - 1, events)) IN
     /\ rafPending' = f.rafPending
     /\ events' = f.events
     /\ fired' = f.fired
     /\ frame' = f.frame
  /\ now' = IF now < MaxFrames THEN now + 1 ELSE now
  /\ last' = Report("animate", NoCode, FALSE, NoSnapshot, <<>>, <<>>)
  /\ UNCHANGED <<scene, modules, moduleCounter, modulesList, pending, submitted, ids,
                 loading, sanitizer>>

loopLoad ==
  \E i \in 1..MaxPending, code \in LoopCodes, sortThrows \in BOOLEAN :
    generationReturns(i, code, sortThrows)

NextLoop ==
  \/ animateLoop
  \/ \E text \in Texts : executeUserCommand(text)
  \/ loopLoad

SpecLoop == Init /\ [][NextLoop]_vars /\ WF_vars(animateLoop)

(***************************************************************************)
(* Side specification for frames with listeners that throw.                *)
(***************************************************************************)
TickCodes == {CodeSubscribe, CodeSubscribeThrowing}

tickLoad ==
  \E i \in 1..MaxPending, code \in TickCodes : generationReturns(i, code, FALSE)

NextTicks ==
  \/ animate
  \/ \E text \in Texts : executeUserCommand(text)
  \/ tickLoad

SpecTicks == Init /\ [][NextTicks]_vars

(***************************************************************************)
(* executeModule statement by statement, under the host's scheduling: a    *)
(* callback runs until it returns or reaches an await, and only then does  *)
(* another task (a frame, a click, another command's continuation) start.  *)
(***************************************************************************)
\* an executeModule that awaits between the module's run and the insertion
ExecuteModuleStepsAwait ==
  <<"new Function", "moduleFunction", "await", "modules.set", "updateModulesList">>

\* the statements of executeModule: it is not async and holds no await
ExecuteModuleSteps ==
  <<"new Function", "moduleFunction", "modules.set", "updateModulesList">>

StepCodes == {CodeAddObject, CodeSubscribe, CodeThrowBoom, CodeSyntaxError}

Suspended == loading.active /\ loading.steps # <<>> /\ Head(loading.steps) = "await"

TaskMayStart == ~loading.active \/ Suspended

\* executeModule returns: what it shows becomes the report
Returns(alerts, console) ==
  /\ loading' = NotLoading
  /\ last' = Report("executeModule", loading.code, TRUE, loading.pre, alerts,
                    loading.console \o console)

Continues(console) ==
  /\ loading' = [loading EXCEPT !.steps = Tail(@), !.console = @ \o console]
  /\ UNCHANGED last

\* generateCode resolves for command i and executeModule(code, text) is entered
loadStarts(i, code, sortThrows) ==
  /\ ~loading.active
  /\ i \in 1..Len(pending)
  /\ pending' = Without(pending, i)
  /\ loading' = [active |-> TRUE, steps |-> ExecuteModuleSteps, code |-> code,
                 description |-> pending[i], sortThrows |-> sortThrows,
                 began |-> [now |-> now, settled |-> Settled + 1],
                 pre |-> Snapshot(scene, modules, moduleCounter, events, modulesList),
                 console |-> <<>>]
  /\ UNCHANGED <<scene, modules, moduleCounter, events, modulesList, submitted,
                 rafPending, now, frame, fired, ids, last, sanitizer>>

\* the next statement of the executeModule on the stack
loadStep ==
  /\ loading.active
  /\ LET step == Head(loading.steps)
         st == [scene |-> scene, events |-> events, modules |-> modules]
     IN
     CASE step = "new Function" ->
            /\ IF ~NewFunctionThrows(loading.code)
               THEN Continues(<<>>)
               ELSE Returns(<<Alert("Execution error: ", MsgSyntaxError)>>,
                            <<"Execution error:">>)
            /\ UNCHANGED <<scene, events, modules, moduleCounter, modulesList, ids>>
       [] step = "moduleFunction" ->
            LET r == moduleFunction(loading.code, st, now) IN
            /\ scene' = r.st.scene
            /\ events' = r.st.events
            /\ modules' = r.st.modules
            /\ IF r.raised
               THEN Returns(<<Alert("Execution error: ", r.value.message)>>,
                            r.console \o <<"Execution error:">>)
               ELSE IF r.value.type = "true" THEN Continues(r.console)
               ELSE IF Truthy(r.value.error)
               THEN Returns(<<Alert("Module error: ", r.value.error)>>,
                            r.console \o <<"Module error:">>)
               ELSE Returns(<<>>, r.console)
            /\ UNCHANGED <<moduleCounter, modulesList, ids>>
       [] step = "await" ->
            /\ Continues(<<>>)
            /\ UNCHANGED <<scene, events, modules, moduleCounter, modulesList, ids>>
       [] step = "modules.set" ->
            LET moduleId == ModuleId(moduleCounter) IN
            /\ modules' = MapSet(modules, HostEntry(moduleId, loading.description,
                                                    loading.code, now))
            /\ moduleCounter' = PostIncrement(moduleCounter)
            /\ ids' = Append(ids, moduleId)
            /\ Continues(<<>>)
            /\ UNCHANGED <<scene, events, modulesList>>
       [] step = "updateModulesList" ->
            LET u == updateModulesList(modules, loading.sortThrows) IN
            /\ modulesList' = u.modulesList
            /\ IF u.raised
               THEN Returns(<<Alert("Execution error: ", MsgNoLocaleCompare)>>,
                            <<"Execution error:">>)
               ELSE Returns(<<>>, <<>>)
            /\ UNCHANGED <<scene, events, modules, moduleCounter, ids>>
  /\ UNCHANGED <<pending, submitted, rafPending, now, frame, fired, sanitizer>>

frameTask == TaskMayStart /\ animate

commandTask == TaskMayStart /\ \E text \in Texts : executeUserCommand(text)

failureTask ==
  TaskMayStart /\ \E i \in 1..MaxPending, message \in GenerationFailures :
                   generationFails(i, message)

NextSteps ==
  \/ frameTask
  \/ commandTask
  \/ failureTask
  \/ \E i \in 1..MaxPending, code \in StepCodes : loadStarts(i, code, FALSE)
  \/ loadStep

SpecSteps == Init /\ [][NextSteps]_vars

(***************************************************************************)
(* Side specification for the clean-up of the generated text: the text is  *)
(* drawn from the pieces a reply is made of, and the statements of llm.js  *)
(* 72-117 are applied to it one after the other.                           *)
(***************************************************************************)
MaxParts == 3

\* "Here is the code:" and a line feed
TextHereIs ==
  <<72, 101, 114, 101, 32, 105, 115, 32, 116, 104, 101, 32, 99, 111, 100, 101, 58, 10>>

\* an opening fence tagged javascript, and a line feed
TextFenceJavascript ==
  <<96, 96, 96, 106, 97, 118, 97, 115, 99, 114, 105, 112, 116, 10>>

\* an opening fence tagged js, and a line feed
TextFenceJs ==
  <<96, 96, 96, 106, 115, 10>>

\* an opening fence tagged jsx, and a line feed
TextFenceJsx ==
  <<96, 96, 96, 106, 115, 120, 10>>

\* "const a = 1;", a line feed, a closing fence, a line feed
TextCode ==
  <<99, 111, 110, 115, 116, 32, 97, 32, 61, 32, 49, 59, 10, 96, 96, 96, 10>>

\* "This code adds a cube." and a line feed
TextProse ==
  <<84, 104, 105, 115, 32, 99, 111, 100, 101, 32, 97, 100, 100, 115, 32, 97, 32, 99,
    117, 98, 101, 46, 10>>

\* "import a from 'b';" and a line feed
TextImport ==
  <<105, 109, 112, 111, 114, 116, 32, 97, 32, 102, 114, 111, 109, 32, 39, 98, 39, 59,
    10>>

\* "let s = ", hi between two backticks, ";" and a line feed
TextTemplate ==
  <<108, 101, 116, 32, 115, 32, 61, 32, 96, 104, 105, 96, 59, 10>>

TextParts ==
  {TextHereIs,
   TextFenceJavascript,
   TextFenceJs,
   TextFenceJsx,
   TextCode,
   TextProse,
   TextImport,
   TextTemplate}

\* the texts made of n pieces
RECURSIVE TextsOf(_)
TextsOf(n) ==
  IF n = 0 THEN {<<>>}
  ELSE {part \o rest : part \in TextParts, rest \in TextsOf(n - 1)}

\* data.content[0].text: the replies of one to MaxParts pieces
ReplyTexts == UNION {TextsOf(n) : n \in 1..MaxParts}

InitSanitize ==
  /\ InitHost
  /\ \E text \in ReplyTexts :
       sanitizer = [stage |-> "fences", text |-> text, code |-> text, cleaned |-> <<>>]

\* one statement of the clean-up: from its stage to the next with its result
SanitizerStep(from, to, code) ==
  /\ sanitizer.stage = from
  /\ sanitizer' = [sanitizer EXCEPT !.stage = to, !.code = code,
                                    !.cleaned = IF to = "explanation" THEN code ELSE @]
  /\ UNCHANGED <<scene, modules, moduleCounter, events, modulesList, pending, submitted,
                 rafPending, now, frame, fired, ids, loading, last>>

\* code = code.replace(fence pattern, "")
removeCodeFences ==
  SanitizerStep("fences", "backticks", ReplaceLiterals(sanitizer.code, 1, FencePatterns))

\* code = code.replace(return-and-backtick pattern, "")
removeBackticks ==
  SanitizerStep("backticks", "imports", ReplaceLiterals(sanitizer.code, 1, BacktickPatterns))

\* code = code.replace(import pattern, "")
removeImports ==
  SanitizerStep("imports", "explanation", ReplaceImports(sanitizer.code, 1))

\* if (marker) { ... code = lines.slice(startLine).join("\n") }
removeExplanation ==
  SanitizerStep("explanation", "trim", RemoveExplanation(sanitizer.code))

\* return code.trim()
returnTrimmed == SanitizerStep("trim", "done", Trim(sanitizer.code))

NextSanitize ==
  \/ removeCodeFences
  \/ removeBackticks
  \/ removeImports
  \/ removeExplanation
  \/ returnTrimmed

SpecSanitize == InitSanitize /\ [][NextSanitize]_vars

\* the clean-up as one function of the text
Sanitize(text) ==
  Trim(RemoveExplanation(ReplaceImports(
    ReplaceLiterals(ReplaceLiterals(text, 1, FencePatterns), 1, BacktickPatterns), 1)))

(***************************************************************************)
(* Vocabulary of the properties.                                           *)
(***************************************************************************)
\* the number an identifier `module_<n>` carries
RECURSIVE ParseDigits(_)
ParseDigits(d) ==
  IF d = <<>> THEN 0
  ELSE 10 * ParseDigits(SubSeq(d, 1, Len(d) - 1)) + (d[Len(d)] - 48)

IdNumber(id) == ParseDigits(SubSeq(id, Len(StrModule) + 1, Len(id)))

\* the state is the one executeModule has just left
ThisLoad == last.op = "executeModule"

\* positions of the records with an identifier that the last handler added
NewRecords ==
  {i \in 1..Len(modules) :
     modules[i].hasId /\ modules[i].key \notin MapKeys(last.pre.modules)}

RecordAdded == NewRecords # {}

CompletedNormally(code) == code.ok /\ code.end \in {"fall", "return"}

\* a returned value that carries an error description
FailureShaped(code) == code.end = "return" /\ code.val.error # Undef

FailureReported == last.alerts # <<>>

CurrentSnapshot == Snapshot(scene, modules, moduleCounter, events, modulesList)

Range(q) == {q[k] : k \in 1..Len(q)}

\* code that runs modules.clear()
ClearsRegistry(code) == code.ok /\ "modules.clear" \in Range(code.body)

(***************************************************************************)
(* Properties.                                                             *)
(***************************************************************************)
\* C1: a call of executeModule adds a record if and only if the code
\* compiled, ran to completion without throwing and did not return a
\* failure-shaped value, whether it returns nothing, a value, or early.
C1_RegisteredIffCompleted ==
  ThisLoad =>
    (RecordAdded <=> (CompletedNormally(last.code) /\ ~FailureShaped(last.code)))

\* C2: for code that compiles, completes without throwing and returns no
\* value, executeModule reports no failure and the registry gains exactly
\* one record, whose identifier is greater than every identifier assigned
\* before it.
C2_PlainCodeRegistersOnce ==
  (ThisLoad /\ last.code.ok /\ last.code.end = "fall") =>
    /\ ~FailureReported
    /\ Cardinality(NewRecords) = 1
    /\ \A i \in NewRecords : \A k \in 1..(Len(ids) - 1) :
         IdNumber(ids[k]) < IdNumber(modules[i].id)

\* C3: for code that throws at its top level, executeModule adds no record,
\* leaves the counter alone and reports a failure whose text contains the
\* thrown error's message.
C3_ThrowReportedNotRegistered ==
  (ThisLoad /\ last.code.ok /\ last.code.end = "throw") =>
    /\ ~RecordAdded
    /\ moduleCounter = last.pre.moduleCounter
    /\ FailureReported
    /\ last.code.val.message # Undef =>
         \E k \in 1..Len(last.alerts) : last.alerts[k].message = last.code.val.message

\* C4: whenever executeModule reports a failure, the registry holds exactly
\* the records it held before the call.
C4_FailureLeavesRegistry ==
  (ThisLoad /\ FailureReported) => modules = last.pre.modules

\* C5: every load that does not end in registration surfaces a failure
\* message to the caller.
C5_NoSilentDrop ==
  (ThisLoad /\ ~RecordAdded) => FailureReported

\* C6: identifiers are assigned in strictly increasing order and none is
\* assigned twice, over successful loads, failed loads and clears; the load
\* that follows a clear gets the next identifier, not module_0.
C6_IdsIncreaseNeverReused ==
  /\ \A i, j \in 1..Len(ids) :
       i < j => (ids[i] # ids[j] /\ IdNumber(ids[i]) < IdNumber(ids[j]))
  /\ ThisLoad => \A i \in NewRecords : modules[i].id = ids[Len(ids)]
  /\ (ThisLoad /\ last.pre.moduleCounter > 0) =>
       \A i \in NewRecords : modules[i].id # ModuleId(0)

\* a load cleared a registry that held records and was registered itself,
\* under the next identifier
C6_Witness ==
  /\ ThisLoad
  /\ last.code = CodeClear
  /\ Len(last.pre.modules) >= 1
  /\ last.pre.moduleCounter >= 2
  /\ Len(modules) = 1
  /\ modules[1].id = ModuleId(last.pre.moduleCounter)

\* C7: the record listing is in ascending identifier order, which is
\* creation order, for every number of registered modules.
C7_ListingAscending ==
  \A i, j \in 1..Len(modulesList) :
    (i < j /\ modulesList[i].hasId /\ modulesList[j].hasId) =>
      /\ IdNumber(modulesList[i].id) < IdNumber(modulesList[j].id)
      /\ modulesList[i].timestamp <= modulesList[j].timestamp

\* C8: a dispatch invokes each listener subscribed before it exactly once,
\* in subscription order, and a listener is never invoked for a dispatch
\* that preceded its subscription.
C8_DispatchOncePerListenerInOrder ==
  /\ fired = [i \in 1..Len(fired) |-> i]
  /\ Len(fired) = Cardinality({i \in 1..Len(events) : events[i].since < now})
  /\ \A i \in 1..Len(events) : events[i].hits = now - events[i].since

\* two listeners subscribed by two loads, the second after the first
\* dispatch; the last tick invoked both, the older first
C8_Witness ==
  /\ last.op = "animate"
  /\ Len(events) = 2
  /\ events[1].hits = 2
  /\ events[2].hits = 1
  /\ fired = <<1, 2>>

\* C9: each run of the frame step dispatches "animate" exactly once, after
\* advancing the controls and before rendering.
C9_FrameDispatchesOnceBetween ==
  /\ Cardinality({k \in 1..Len(frame) : frame[k] = "dispatchEvent"}) = 1
  /\ \E c, d, r \in 1..Len(frame) :
       /\ c < d /\ d < r
       /\ frame[c] = "controls.update"
       /\ frame[d] = "dispatchEvent"
       /\ frame[r] = "render"

\* a frame ran with a listener subscribed
C9_Witness == last.op = "animate" /\ fired # <<>>

\* C10: when code generation fails for a command, executeModule is not
\* called, the registry, counter, scene and listeners are as before, and
\* exactly one failure message is shown.
C10_GenerationFailureLoadsNothing ==
  last.op = "generationFails" =>
    /\ ~last.called
    /\ CurrentSnapshot = last.pre
    /\ Len(last.alerts) = 1

\* generation failed while the registry and the bus were not empty
C10_Witness ==
  /\ last.op = "generationFails"
  /\ modules # <<>>
  /\ events # <<>>

\* the code is the plain valid kind: it compiles and falls off its end
ValidCode(code) == code.ok /\ code.end = "fall"

\* C11: whatever commands failed before, a command with valid code is still
\* loaded and registered, and a frame callback is still pending, so ticks
\* go on.
C11_UsableAfterFailures ==
  /\ (ThisLoad /\ ValidCode(last.code)) =>
       /\ RecordAdded
       /\ scene = RunBody(last.code.body, last.pre, 0).scene
  /\ rafPending >= 1

\* two commands ended without a registration, then valid code was loaded and
\* became module_0
C11_Witness ==
  /\ ThisLoad
  /\ last.code = CodeAddObject
  /\ Settled = 3
  /\ moduleCounter = 1
  /\ Len(modules) = 1
  /\ modules[1].id = ModuleId(0)
  /\ scene = last.pre.scene + 1
  /\ rafPending >= 1

\* C12: when module code completes without throwing and produces a handle,
\* the loader reports success and the new record stores the handle.
C12_HandleStored ==
  (ThisLoad /\ last.code.ok /\ last.code.end = "return" /\ last.code.val = VHandle) =>
    /\ ~FailureReported
    /\ RecordAdded
    /\ \A i \in NewRecords : "handle" \in DOMAIN modules[i]

\* the module's top level has run and its record is not yet inserted
InsideLoad ==
  /\ loading.active
  /\ "moduleFunction" \notin Range(loading.steps)
  /\ "modules.set" \in Range(loading.steps)

\* C13: between the start of a module's top-level execution and the
\* insertion of its record no frame tick runs and no other command is
\* handled, whatever else is waiting.
C13_LoadIsAtomic ==
  InsideLoad =>
    /\ now = loading.began.now
    /\ Settled = loading.began.settled
    /\ moduleCounter = loading.pre.moduleCounter
    /\ rafPending = 1

\* a module has run and is about to be registered while another command
\* awaits its code and a frame callback is requested
C13_Witness ==
  /\ InsideLoad
  /\ loading.code = CodeSubscribe
  /\ Len(events) = Len(loading.pre.events) + 1
  /\ Len(pending) >= 1
  /\ rafPending >= 1

\* C14: a record, once created, is neither changed nor removed by a later
\* load or frame tick: unless the step clears the registry, every record
\* present before a step is present after it with the same id, description,
\* code and timestamp.
C14_RecordsNeverChanged ==
  [][ \/ last'.op = "executeModule" /\ ClearsRegistry(last'.code)
      \/ \A i \in 1..Len(modules) :
           modules[i].hasId => \E j \in 1..Len(modules') : modules'[j] = modules[i]
    ]_vars

\* C15: emptying the registry unsubscribes nothing: no step removes a
\* subscribed handler, and every tick, cleared registry or not, invokes each
\* subscribed handler once.
C15_ClearKeepsHandlers ==
  [][ /\ Len(events') >= Len(events)
      /\ \A k \in 1..Len(events) :
           /\ events'[k].since = events[k].since
           /\ events'[k].hits = IF now' = now THEN events[k].hits ELSE events[k].hits + 1
    ]_vars

\* a handler subscribed before the registry was cleared has been invoked on
\* every tick, the ones after the clearing included
C15_Witness ==
  /\ last.op = "animate"
  /\ Len(events) >= 1
  /\ Len(ids) > Len(modules)
  /\ \E i \in 1..Len(modules) :
       /\ modules[i].code = CodeClear
       /\ events[1].since <= modules[i].timestamp
       /\ modules[i].timestamp < now
  /\ events[1].hits = now - events[1].since
  /\ 1 \in Range(fired)

\* C16: code that does not compile is never run: the failure is reported
\* with the SyntaxError's message, and the registry, the counter, the scene
\* and the subscriptions are as before.
C16_CompileFailureRunsNothing ==
  (ThisLoad /\ ~last.code.ok) =>
    /\ CurrentSnapshot = last.pre
    /\ last.alerts = <<Alert("Execution error: ", MsgSyntaxError)>>
    /\ "Module execution error:" \notin Range(last.console)

\* code that does not parse was handed over with records and a listener in
\* place
C16_Witness ==
  /\ ThisLoad
  /\ last.code = CodeSyntaxError
  /\ Len(modules) >= 1
  /\ Len(events) >= 1
  /\ moduleCounter >= 1

\* C17: a handler that throws during a tick stops neither the tick nor the
\* loop: the handlers after it are invoked on the same tick, the scene is
\* rendered and the next frame is requested.
C17_ThrowingHandlerIsolated ==
  (last.op = "animate" /\ \E k \in 1..Len(events) : events[k].throws) =>
    /\ fired = [i \in 1..Len(events) |-> i]
    /\ frame[Len(frame)] = "render"
    /\ rafPending = 1

\* the first of two handlers throws; the tick invoked both, and a second
\* tick ran after the first throw
C17_Witness ==
  /\ last.op = "animate"
  /\ Len(events) = 2
  /\ events[1].throws
  /\ ~events[2].throws
  /\ events[1].hits = 2
  /\ events[2].hits >= 1
  /\ fired = <<1, 2>>

\* positions of the records the host created
HostRecords == {i \in 1..Len(modules) : modules[i].hasId}

\* C18: with several commands in flight and their responses loaded in any
\* order, the identifiers of the records are pairwise distinct, no record
\* replaces another, and identifiers grow in the order of loading, which
\* need not be the order of submission.
C18_InFlightLoadsKeepOrder ==
  /\ \A i, j \in HostRecords : i < j => IdNumber(modules[i].id) < IdNumber(modules[j].id)
  /\ Cardinality(HostRecords) = Len(ids)
  /\ (ThisLoad /\ RecordAdded) =>
       /\ NewRecords = {Len(modules)}
       /\ modules[Len(modules)].id = ModuleId(last.pre.moduleCounter)

\* two commands were in flight together; the second one submitted was
\* loaded first and holds module_0, the first one holds module_1
C18_Witness ==
  /\ Len(modules) = 2
  /\ modules[1].description = FlightText(2)
  /\ modules[1].id = ModuleId(0)
  /\ modules[2].description = FlightText(1)
  /\ modules[2].id = ModuleId(1)

\* C19: in every state exactly one frame callback is requested, the frame
\* step requests its successor before anything else, and with frames
\* scheduled fairly the tick is delivered again and again.
C19_OneFramePendingForever ==
  /\ [](rafPending = 1 /\ frame[1] = "requestAnimationFrame")
  /\ []<>(last.op = "animate" /\ "dispatchEvent" \in Range(frame))

\* a frame ran after a load and after a load that failed, with a command
\* still waiting
C19_Witness ==
  /\ last.op = "animate"
  /\ rafPending = 1
  /\ now = MaxFrames
  /\ Len(modules) >= 1
  /\ Settled >= 2
  /\ Len(pending) >= 1

\* C20: loads that fail take no identifier: the counter is the number of
\* registrations so far and the identifiers assigned are module_0,
\* module_1, ... without a gap.
C20_CounterCountsRegistrations ==
  /\ moduleCounter = Len(ids)
  /\ \A k \in 1..Len(ids) : ids[k] = ModuleId(k - 1)
  /\ (ThisLoad /\ ~RecordAdded) => moduleCounter = last.pre.moduleCounter

\* a load registered as module_1 right after a load that failed
C20_Witness ==
  /\ ThisLoad
  /\ RecordAdded
  /\ ids = <<ModuleId(0), ModuleId(1)>>
  /\ Settled = 3
  /\ last.pre.moduleCounter = 1

\* the letters, of which a fence's language tag is made
Letters == (65..90) \cup (97..122)

\* the text without its fence markers: each run of three backticks goes,
\* and with it the language tag that follows it directly
RECURSIVE FenceFree(_, _)
FenceFree(s, i) ==
  IF i > Len(s) THEN <<>>
  ELSE IF StartsWithAt(s, i, StrFence)
  THEN LET rest == {j \in (i + 3)..Len(s) : s[j] \notin Letters} IN
       IF rest = {} THEN <<>> ELSE FenceFree(s, Least(rest))
  ELSE <<s[i]>> \o FenceFree(s, i + 1)

\* the lines that begin, after blanks, with a code-starting token
CodeLines(lines) == {k \in 1..Len(lines) : StartsWithCodeToken(Trim(lines[k]))}

\* C21: the clean-up returns a string for every text; when the text holds a
\* discourse marker the result starts at the first non-blank line that
\* begins with a code-starting token and the lines before it are gone; with
\* no such line the result is the trimmed text; and fence markers are removed
\* in all cases: no fence is left, and the result is the one the text
\* without its fence markers gives.
C21_SanitizerContract ==
  sanitizer.stage = "done" =>
    LET out == sanitizer.code
        lines == SplitLines(sanitizer.cleaned)
    IN
    /\ \A i \in 1..Len(out) : out[i] \in 0..65535
    /\ (HasDiscourseMarker(sanitizer.text) /\ CodeLines(lines) # {}) =>
         /\ StartsWithCodeToken(out)
         /\ out = Trim(JoinLines(SubSeq(lines, Least(CodeLines(lines)), Len(lines))))
    /\ (HasDiscourseMarker(sanitizer.text) /\ CodeLines(lines) = {}) =>
         out = Trim(sanitizer.cleaned)
    /\ ~Includes(out, StrFence)
    /\ out = Sanitize(FenceFree(sanitizer.text, 1))

====
